---- MODULE Spec2Model ----
(***************************************************************************)
(* Model of the gpt53 DNS chat client (client/dns_chat.py).                *)
(*                                                                         *)
(* Text is modelled as a sequence of one-character strings, so that the    *)
(* Python string operations the client uses (len, strip, startswith,      *)
(* replace, split, lower, int) are computed character by character.       *)
(* An optional value (Optional[str], Optional[List[str]]) is a record     *)
(* with a "kind" field; kind "none" is Python's None.                     *)
(***************************************************************************)
EXTENDS Integers, Sequences, FiniteSets, TLC

(***************************************************************************)
(* Bounds of the model                                                     *)
(***************************************************************************)
MaxCalls == 2    \* client method calls made by a library caller
MaxFrames == 1   \* spinner frames counted on the terminal
MaxInputs == 3   \* lines the user types in one interactive session
MaxNames == 2    \* length of the enumerated model lists

(***************************************************************************)
(* Text literals                                                           *)
(***************************************************************************)
QUOTE == "\""
BSLASH == "\\"
SPACE == " "
BAR == "|"
Whitespace == {" ", "\t", "\n"}
Digits == <<"0", "1", "2", "3", "4", "5", "6", "7", "8", "9">>
UpperCase == <<"A", "B", "C", "D", "E", "F", "G", "H", "I", "J", "K", "L", "M",
               "N", "O", "P", "Q", "R", "S", "T", "U", "V", "W", "X", "Y", "Z">>
LowerCase == <<"a", "b", "c", "d", "e", "f", "g", "h", "i", "j", "k", "l", "m",
               "n", "o", "p", "q", "r", "s", "t", "u", "v", "w", "x", "y", "z">>

S_PING == <<"P", "I", "N", "G">>
S_LIST == <<"L", "I", "S", "T">>
S_PONG == <<"P", "O", "N", "G">>
S_ERROR == <<"E", "R", "R", "O", "R", ":">>
S_AVAILABLE == <<"A", "v", "a", "i", "l", "a", "b", "l", "e", " ",
                 "m", "o", "d", "e", "l", "s", ":">>
S_AVAILABLE_SP == S_AVAILABLE \o <<" ">>
QuitWords == { <<"q", "u", "i", "t">>, <<"e", "x", "i", "t">>,
               <<"b", "y", "e">>, <<"q">> }

KeyLen == 10

(***************************************************************************)
(* Python string operations                                                *)
(***************************************************************************)
RECURSIVE LStrip(_, _)
LStrip(s, cs) ==
    IF s # <<>> /\ Head(s) \in cs THEN LStrip(Tail(s), cs) ELSE s

RECURSIVE RStrip(_, _)
RStrip(s, cs) ==
    IF s # <<>> /\ s[Len(s)] \in cs THEN RStrip(SubSeq(s, 1, Len(s) - 1), cs) ELSE s

\* str.strip(chars): removes every leading and trailing character in cs
Strip(s, cs) == RStrip(LStrip(s, cs), cs)

\* str.startswith(p)
StartsWith(s, p) == Len(s) >= Len(p) /\ SubSeq(s, 1, Len(p)) = p

\* str.replace(old, new): every non-overlapping occurrence, left to right
RECURSIVE Replace(_, _, _)
Replace(s, old, new) ==
    IF s = <<>> THEN <<>>
    ELSE IF StartsWith(s, old)
         THEN new \o Replace(SubSeq(s, Len(old) + 1, Len(s)), old, new)
         ELSE <<Head(s)>> \o Replace(Tail(s), old, new)

\* str.split(sep) for a one-character separator: never returns an empty list
RECURSIVE Split(_, _)
Split(s, sep) ==
    IF \E i \in 1..Len(s) : s[i] = sep
    THEN LET i == CHOOSE j \in 1..Len(s) :
                      s[j] = sep /\ \A k \in 1..(j - 1) : s[k] # sep
         IN <<SubSeq(s, 1, i - 1)>> \o Split(SubSeq(s, i + 1, Len(s)), sep)
    ELSE <<s>>

LowerChar(c) ==
    IF \E i \in 1..26 : UpperCase[i] = c
    THEN LowerCase[CHOOSE i \in 1..26 : UpperCase[i] = c]
    ELSE c

\* str.lower()
Lower(s) == [i \in 1..Len(s) |-> LowerChar(s[i])]

IsDigit(c) == \E i \in 1..10 : Digits[i] = c
DigitVal(c) == (CHOOSE i \in 1..10 : Digits[i] = c) - 1

RECURSIVE DigitsVal(_)
DigitsVal(s) ==
    IF s = <<>> THEN 0 ELSE 10 * DigitsVal(SubSeq(s, 1, Len(s) - 1)) + DigitVal(s[Len(s)])

\* int(text): surrounding whitespace ignored, one optional sign, then digits;
\* anything else raises ValueError
ParseInt(s) ==
    LET t == Strip(s, Whitespace)
        signed == t # <<>> /\ Head(t) \in {"+", "-"}
        d == IF signed THEN Tail(t) ELSE t
    IN IF d # <<>> /\ \A i \in 1..Len(d) : IsDigit(d[i])
       THEN [ok |-> TRUE,
             val |-> IF signed /\ Head(t) = "-" THEN 0 - DigitsVal(d) ELSE DigitsVal(d)]
       ELSE [ok |-> FALSE, val |-> 0]

RECURSIVE NatToStr(_)
NatToStr(n) ==
    IF n < 10 THEN <<Digits[n + 1]>> ELSE NatToStr(n \div 10) \o <<Digits[(n % 10) + 1]>>

\* variant: the number is padded to two digits
IntToStrPadded(n) ==
    IF n < 0 THEN <<"-">> \o NatToStr(0 - n)
    ELSE IF n < 10 THEN <<"0">> \o NatToStr(n) ELSE NatToStr(n)

\* f"{n}" for an int
IntToStr(n) == IF n < 0 THEN <<"-">> \o NatToStr(0 - n) ELSE NatToStr(n)

(***************************************************************************)
(* Optional values                                                         *)
(***************************************************************************)
None == [kind |-> "none"]
Str(s) == [kind |-> "str", val |-> s]
Bool(b) == [kind |-> "bool", val |-> b]
List(l) == [kind |-> "list", val |-> l]
Num(n) == [kind |-> "int", val |-> n]
IsStr(v, s) == v.kind = "str" /\ v.val = s

\* truth value of an Optional[str] / Optional[List[str]] / bool
Truthy(v) ==
    CASE v.kind = "none" -> FALSE
      [] v.kind = "bool" -> v.val
      [] OTHER -> v.val # <<>>

(***************************************************************************)
(* Inputs                                                                  *)
(***************************************************************************)
K_GOOD == <<"A", "B", "C", "D", "E", "F", "G", "H", "I", "J">>
K_OTHER == <<"0", "1", "2", "3", "4", "5", "6", "7", "8", "9">>
K_SHORT == <<"A", "B", "C", "D", "E", "F", "G", "H", "I">>
K_LONG == <<"A", "B", "C", "D", "E", "F", "G", "H", "I", "J", "K">>
Keys == {<<>>, K_SHORT, K_GOOD, K_OTHER, K_LONG}

P_HELLO == <<"h", "e", "l", "l", "o">>
P_BLANK == <<" ", "\t">>
P_PADDED == <<" ", "h", "i">>
Prompts == {<<>>, P_BLANK, P_HELLO, P_PADDED}
ModelIndexes == {-1, 0, 3, 9, 10}

\* TXT payloads a server can answer with
T_MODELS == S_AVAILABLE_SP \o <<"a", " ", "|", " ", "b">>
T_NOMODELS == S_AVAILABLE_SP
T_ERROR == S_ERROR \o <<"n", "o">>
T_REPLY == <<"H", "i", "!">>
T_QUOTED == <<QUOTE, "o", "k", QUOTE>>
T_PONGS == <<"P", "O", "N", "G", "S">>

\* LIST answers: the prefix, then the model names joined with " | "
N_A == <<"a">>
N_GPT == <<"g", "p", "t", "-", "b">>
ModelNames == {N_A, N_GPT}
NineNames == [i \in 1..9 |-> IF i % 2 = 1 THEN N_GPT ELSE N_A]
ModelLists == (UNION {[1..n -> ModelNames] : n \in 1..MaxNames}) \cup {NineNames}

RECURSIVE JoinModels(_)
JoinModels(names) ==
    IF Len(names) = 1 THEN names[1]
    ELSE names[1] \o <<" ", "|", " ">> \o JoinModels(Tail(names))

ListAnswer(names) == S_AVAILABLE_SP \o JoinModels(names)

Payloads == {S_PONG, T_PONGS, T_MODELS, T_NOMODELS, T_ERROR, T_REPLY, T_QUOTED, <<>>}
            \cup {ListAnswer(names) : names \in ModelLists}

\* what the user types at the two prompts of the interactive command
OptKeys == {None} \cup {Str(k) : k \in Keys}
ModelInputs == { <<"3">>, <<" ", "7", " ">>, <<"1", "2">>, <<"-", "1">>, <<"x">>, <<>> }
BadModelInputs == { <<"1", "2">>, <<"-", "1">>, <<"x">>, <<>> }
ChatInputs == { P_HELLO, P_BLANK, <<>>, <<"Q", "u", "i", "t">>, <<"q">>, <<"e", "x", "i", "t">> }
Eof == [kind |-> "eof"]
Interrupted == [kind |-> "interrupt"]

\* what resolver.resolve(query, 'TXT') can do: return an answer, return an
\* answer without records, or raise
FailureKinds == {"NXDOMAIN", "NoAnswer", "Timeout", "DNSException"}
RaiseKinds == FailureKinds \cup {"Exception", "KeyboardInterrupt"}
Outcomes ==
    {[kind |-> "answer", txt |-> p] : p \in Payloads}
    \cup {[kind |-> k, txt |-> <<>>] : k \in RaiseKinds \cup {"empty"}}
NoOutcome == [kind |-> "none", txt |-> <<>>]

NoCall == [name |-> "none", key |-> <<>>, mi |-> 0, prompt |-> <<>>]

(***************************************************************************)
(* State                                                                   *)
(***************************************************************************)
VARIABLES
    api_key,      \* DNSChatClient.api_key
    pc,           \* position of the main thread inside the client method
    call,         \* the client method being executed (or executed last)
    query,        \* query_dns: the query name
    running,      \* LoadingAnimation.running of the current loader
    thread,       \* LoadingAnimation.thread: "none", "test", "print", "dead"
    orphans,      \* loaders abandoned while their thread was still animating
    frames,       \* spinner frames written to the terminal
    outcome,      \* what resolver.resolve did
    response,     \* value returned by query_dns
    ret,          \* value returned by the client method
    raised,       \* exception that left the client method, or "none"
    queries,      \* transport log: the names handed to resolver.resolve
    sent,         \* transport queries issued by the current method call
    said,         \* last line the main thread printed
    ipc,          \* position of the caller ("api": a library caller)
    calls,        \* client method calls made by the library caller
    opt_key,      \* value of the --api-key option
    models,       \* interactive: models
    model_index,  \* interactive: model_index, "unset" before it is assigned
    inputs,       \* lines read from the input stream
    line,         \* what the last input() call did: a line, "eof", "interrupt"
    escaped       \* exception that left the interactive command, or "none"

clientVars == <<api_key, pc, call, query, running, thread, orphans, frames,
                outcome, response, ret, raised, queries, sent, said>>
callerVars == <<ipc, calls, opt_key, models, model_index, inputs, line, escaped>>
vars == <<api_key, pc, call, query, running, thread, orphans, frames,
          outcome, response, ret, raised, queries, sent, said,
          ipc, calls, opt_key, models, model_index, inputs, line, escaped>>

\* DNSChatClient.__init__
ClientInit ==
    /\ api_key = <<>>
    /\ pc = "idle"
    /\ call = NoCall
    /\ query = <<>>
    /\ running = FALSE
    /\ thread = "none"
    /\ orphans = 0
    /\ frames = 0
    /\ outcome = NoOutcome
    /\ response = None
    /\ ret = None
    /\ raised = "none"
    /\ queries = <<>>
    /\ sent = 0
    /\ said = ""

(***************************************************************************)
(* LoadingAnimation                                                        *)
(***************************************************************************)
\* _animate: the loop test
AnimateTest ==
    /\ thread = "test"
    /\ thread' = IF running THEN "print" ELSE "dead"
    /\ UNCHANGED <<api_key, pc, call, query, running, orphans, frames, outcome,
                   response, ret, raised, queries, sent, said>>
    /\ UNCHANGED callerVars

\* _animate: one frame printed, then sleep
AnimatePrint ==
    /\ thread = "print"
    /\ frames < MaxFrames
    /\ frames' = frames + 1
    /\ thread' = "test"
    /\ UNCHANGED <<api_key, pc, call, query, running, orphans, outcome,
                   response, ret, raised, queries, sent, said>>
    /\ UNCHANGED callerVars

\* _animate of a loader nobody stopped: running stays True
OrphanAnimate ==
    /\ orphans > 0
    /\ frames < MaxFrames
    /\ frames' = frames + 1
    /\ UNCHANGED <<api_key, pc, call, query, running, thread, orphans, outcome,
                   response, ret, raised, queries, sent, said>>
    /\ UNCHANGED callerVars

(***************************************************************************)
(* DNSChatClient.set_api_key                                               *)
(***************************************************************************)
\* variant: any non-empty key is accepted
KeyAcceptedNonEmpty(k) == Len(k) > 0

\* variant: a key longer than ten characters is accepted too
KeyAcceptedAtLeast(k) == Len(k) >= KeyLen

KeyAccepted(k) == Len(k) = KeyLen

\* variant: the key is stored before its length is checked
SetApiKeyStoreFirst(k) ==
    /\ call' = [name |-> "set_api_key", key |-> k, mi |-> 0, prompt |-> <<>>]
    /\ api_key' = k
    /\ ret' = Bool(KeyAccepted(k))
    /\ said' = IF KeyAccepted(k) THEN said
                                 ELSE "API key must be exactly 10 characters"
    /\ raised' = "none"
    /\ sent' = 0
    /\ UNCHANGED <<pc, query, running, thread, orphans, frames, outcome,
                   response, queries>>

SetApiKey(k) ==
    /\ call' = [name |-> "set_api_key", key |-> k, mi |-> 0, prompt |-> <<>>]
    /\ IF KeyAccepted(k)
       THEN /\ api_key' = k
            /\ ret' = Bool(TRUE)
            /\ said' = said
       ELSE /\ api_key' = api_key
            /\ ret' = Bool(FALSE)
            /\ said' = "API key must be exactly 10 characters"
    /\ raised' = "none"
    /\ sent' = 0
    /\ UNCHANGED <<pc, query, running, thread, orphans, frames, outcome,
                   response, queries>>

(***************************************************************************)
(* DNSChatClient.query_dns                                                 *)
(***************************************************************************)
\* str(response[0]): a TXT record in presentation format, the payload in
\* double quotes with quote and backslash escaped
RECURSIVE Escape(_)
Escape(p) ==
    IF p = <<>> THEN <<>>
    ELSE (IF Head(p) \in {QUOTE, BSLASH} THEN <<BSLASH, Head(p)>> ELSE <<Head(p)>>)
         \o Escape(Tail(p))

TxtToText(p) == <<QUOTE>> \o Escape(p) \o <<QUOTE>>

\* variant: only the three named resolver exceptions have an except clause
CaughtNamedOnly(kind) == kind \in {"NXDOMAIN", "NoAnswer", "Timeout"}

\* the except clauses of query_dns: the exception classes they catch
Caught(kind) == kind \in {"NXDOMAIN", "NoAnswer", "Timeout", "DNSException", "Exception"}

\* the value query_dns returns for an outcome it handles
QueryResult(o) ==
    IF o.kind = "answer" THEN Str(Strip(TxtToText(o.txt), {QUOTE})) ELSE None

QueryMessage(o) ==
    CASE o.kind = "answer" -> said
      [] o.kind = "empty" -> "No response received"
      [] o.kind = "NXDOMAIN" -> "Domain not found"
      [] o.kind = "NoAnswer" -> "No TXT record found"
      [] o.kind = "Timeout" -> "DNS query timed out"
      [] o.kind = "DNSException" -> "DNS error"
      [] OTHER -> "Unexpected error"

\* a client method enters query_dns
EnterQuery(q) ==
    /\ pc' = "qd_start"
    /\ query' = q
    /\ UNCHANGED <<api_key, running, thread, orphans, frames, outcome,
                   response, queries, said>>

\* lines 83-96: a fresh LoadingAnimation, then loader.start()
QDStart ==
    /\ pc = "qd_start"
    /\ running' = TRUE
    /\ thread' = "test"
    /\ pc' = "qd_resolve"
    /\ UNCHANGED <<api_key, call, query, orphans, frames, outcome, response,
                   ret, raised, queries, sent, said>>
    /\ UNCHANGED callerVars

\* line 97: the TXT query is handed to the resolver
QDIssue ==
    /\ pc = "qd_resolve"
    /\ queries' = Append(queries, query)
    /\ sent' = sent + 1
    /\ pc' = "qd_wait"
    /\ UNCHANGED <<api_key, call, query, running, thread, orphans, frames,
                   outcome, response, ret, raised, said>>
    /\ UNCHANGED callerVars

\* variant: a timed-out query is sent again
OutcomePcRetry(kind) ==
    IF kind = "Timeout" THEN "qd_resolve"
    ELSE IF kind \in {"answer", "empty"} \/ Caught(kind) THEN "qd_stop" ELSE "idle"

\* where the main thread goes when resolve has returned or raised: on to
\* loader.stop() (line 98, or the matching except clause), or out of the
\* client method when no except clause matches
OutcomePc(kind) ==
    IF kind \in {"answer", "empty"} \/ Caught(kind) THEN "qd_stop" ELSE "idle"

\* line 97: resolve returns or raises.  A handled outcome goes on to
\* loader.stop(); an exception no except clause catches leaves query_dns and
\* the client method, with the loader still running.
QDOutcome ==
    /\ pc = "qd_wait"
    /\ \E o \in Outcomes :
        /\ outcome' = o
        /\ pc' = OutcomePc(o.kind)
        /\ IF OutcomePc(o.kind) = "idle"
           THEN /\ raised' = o.kind
                /\ orphans' = orphans + 1
                /\ running' = FALSE
                /\ thread' = "none"
           ELSE UNCHANGED <<running, thread, orphans, raised>>
    /\ UNCHANGED <<api_key, call, query, frames, response, ret, queries, sent, said>>
    /\ UNCHANGED callerVars

\* LoadingAnimation.stop, lines 31-33
LoaderStop ==
    /\ pc = "qd_stop"
    /\ running' = FALSE
    /\ pc' = IF running THEN "qd_join" ELSE "qd_finish"
    /\ UNCHANGED <<api_key, call, query, thread, orphans, frames, outcome,
                   response, ret, raised, queries, sent, said>>
    /\ UNCHANGED callerVars

\* variant: stop() does not join the animation thread
LoaderNoJoin ==
    /\ pc = "qd_join"
    /\ pc' = "qd_finish"
    /\ UNCHANGED <<api_key, call, query, running, thread, orphans, frames, outcome,
                   response, ret, raised, queries, sent, said>>
    /\ UNCHANGED callerVars

\* LoadingAnimation.stop, lines 34-36: join returns once the thread has ended
LoaderJoin ==
    /\ pc = "qd_join"
    /\ thread = "dead"
    /\ pc' = "qd_finish"
    /\ UNCHANGED <<api_key, call, query, running, thread, orphans, frames, outcome,
                   response, ret, raised, queries, sent, said>>
    /\ UNCHANGED callerVars

\* the rest of query_dns after loader.stop(): message and return value
QDReturn ==
    /\ pc = "qd_finish"
    /\ response' = QueryResult(outcome)
    /\ said' = QueryMessage(outcome)
    /\ pc' = "qd_ret"
    /\ UNCHANGED <<api_key, call, query, running, thread, orphans, frames, outcome,
                   ret, raised, queries, sent>>
    /\ UNCHANGED callerVars

(***************************************************************************)
(* DNSChatClient.ping                                                      *)
(***************************************************************************)
Ping ==
    /\ pc = "idle"
    /\ call' = [name |-> "ping", key |-> <<>>, mi |-> 0, prompt |-> <<>>]
    /\ sent' = 0
    /\ raised' = "none"
    /\ ret' = None
    /\ EnterQuery(S_PING)

\* variant: the answer is compared with the quotes still around it
PingResultQuoted(r) == IsStr(r, <<QUOTE>> \o S_PONG \o <<QUOTE>>)

\* variant: any answer that begins with PONG counts
PingResultPrefix(r) == Truthy(r) /\ StartsWith(r.val, S_PONG)

PingResult(r) == IsStr(r, S_PONG)

PingReturn ==
    /\ pc = "qd_ret"
    /\ call.name = "ping"
    /\ ret' = Bool(PingResult(response))
    /\ said' = IF PingResult(response) THEN "Server is responding!"
                                       ELSE "Unexpected response"
    /\ pc' = "idle"
    /\ UNCHANGED <<api_key, call, query, running, thread, orphans, frames, outcome,
                   response, raised, queries, sent>>
    /\ UNCHANGED callerVars

(***************************************************************************)
(* DNSChatClient.list_models                                               *)
(***************************************************************************)
ListModels ==
    /\ pc = "idle"
    /\ call' = [name |-> "list_models", key |-> <<>>, mi |-> 0, prompt |-> <<>>]
    /\ sent' = 0
    /\ raised' = "none"
    /\ ret' = None
    /\ EnterQuery(S_LIST)

\* variant: the entries are not trimmed after the split
ModelsResultNoStrip(r) ==
    IF Truthy(r) /\ StartsWith(r.val, S_AVAILABLE)
    THEN List(Split(Replace(r.val, S_AVAILABLE_SP, <<>>), BAR))
    ELSE None

\* lines 141-152
ModelsResult(r) ==
    IF Truthy(r) /\ StartsWith(r.val, S_AVAILABLE)
    THEN LET models_str == Replace(r.val, S_AVAILABLE_SP, <<>>)
             parts == Split(models_str, BAR)
         IN List([i \in 1..Len(parts) |-> Strip(parts[i], Whitespace)])
    ELSE None

ListModelsReturn ==
    /\ pc = "qd_ret"
    /\ call.name = "list_models"
    /\ ret' = ModelsResult(response)
    /\ said' = IF ModelsResult(response).kind = "list" THEN "Available models:"
                                                       ELSE "Unexpected response"
    /\ pc' = "idle"
    /\ UNCHANGED <<api_key, call, query, running, thread, orphans, frames, outcome,
                   response, raised, queries, sent>>
    /\ UNCHANGED callerVars

(***************************************************************************)
(* DNSChatClient.chat                                                      *)
(***************************************************************************)
\* variant: the range check of the model index is missing
ChatCheckNoRange(key, mi, prompt) ==
    IF key = <<>> THEN "API key not set"
    ELSE IF Strip(prompt, Whitespace) = <<>> THEN "Prompt cannot be empty"
    ELSE ""

\* lines 155-165: the message of the first failing check, "" when all pass
ChatCheck(key, mi, prompt) ==
    IF key = <<>> THEN "API key not set"
    ELSE IF ~(0 <= mi /\ mi <= 9) THEN "Model index must be between 0 and 9"
    ELSE IF Strip(prompt, Whitespace) = <<>> THEN "Prompt cannot be empty"
    ELSE ""

\* variant: the three parts of the name are separated by dots
ChatQueryDotted(key, mi, prompt) == key \o <<".">> \o IntToStr(mi) \o <<".">> \o prompt

\* line 167
ChatQuery(key, mi, prompt) == key \o IntToStr(mi) \o prompt

Chat(mi, prompt) ==
    /\ pc = "idle"
    /\ call' = [name |-> "chat", key |-> <<>>, mi |-> mi, prompt |-> prompt]
    /\ sent' = 0
    /\ raised' = "none"
    /\ ret' = None
    /\ IF ChatCheck(api_key, mi, prompt) = ""
       THEN EnterQuery(ChatQuery(api_key, mi, prompt))
       ELSE /\ said' = ChatCheck(api_key, mi, prompt)
            /\ UNCHANGED <<api_key, pc, query, running, thread, orphans, frames,
                           outcome, response, queries>>

\* lines 171-179
ChatResult(r) ==
    IF Truthy(r) /\ ~StartsWith(r.val, S_ERROR) THEN r ELSE None

ChatReturn ==
    /\ pc = "qd_ret"
    /\ call.name = "chat"
    /\ ret' = ChatResult(response)
    /\ said' = IF ~Truthy(response) THEN said
               ELSE IF StartsWith(response.val, S_ERROR) THEN "ERROR reply"
               ELSE "AI Response"
    /\ pc' = "idle"
    /\ UNCHANGED <<api_key, call, query, running, thread, orphans, frames, outcome,
                   response, raised, queries, sent>>
    /\ UNCHANGED callerVars

(***************************************************************************)
(* A library caller: any sequence of client method calls                   *)
(***************************************************************************)
CallSetApiKey ==
    /\ ipc = "api" /\ pc = "idle" /\ calls < MaxCalls
    /\ \E k \in Keys : SetApiKey(k)
    /\ calls' = calls + 1
    /\ UNCHANGED <<ipc, opt_key, models, model_index, inputs, line, escaped>>

CallPing ==
    /\ ipc = "api" /\ calls < MaxCalls
    /\ Ping
    /\ calls' = calls + 1
    /\ UNCHANGED <<ipc, opt_key, models, model_index, inputs, line, escaped>>

CallListModels ==
    /\ ipc = "api" /\ calls < MaxCalls
    /\ ListModels
    /\ calls' = calls + 1
    /\ UNCHANGED <<ipc, opt_key, models, model_index, inputs, line, escaped>>

CallChat ==
    /\ ipc = "api" /\ calls < MaxCalls
    /\ \E mi \in ModelIndexes, p \in Prompts : Chat(mi, p)
    /\ calls' = calls + 1
    /\ UNCHANGED <<ipc, opt_key, models, model_index, inputs, line, escaped>>

\* the steps inside a client method, shared by every caller
ClientStep ==
    \/ QDStart
    \/ QDIssue
    \/ QDOutcome
    \/ LoaderStop
    \/ LoaderJoin
    \/ QDReturn
    \/ PingReturn
    \/ ListModelsReturn
    \/ ChatReturn
    \/ AnimateTest
    \/ AnimatePrint
    \/ OrphanAnimate

Init ==
    /\ ClientInit
    /\ ipc = "api"
    /\ calls = 0
    /\ opt_key = None
    /\ models = None
    /\ model_index = None
    /\ inputs = 0
    /\ line = None
    /\ escaped = "none"

Next ==
    \/ CallSetApiKey
    \/ CallPing
    \/ CallListModels
    \/ CallChat
    \/ ClientStep

Spec == Init /\ [][Next]_vars

(***************************************************************************)
(* The command line: cli, then the interactive command                     *)
(***************************************************************************)
\* cli, lines 188-197
Cli ==
    /\ ipc = "cli"
    /\ pc = "idle"
    /\ IF Truthy(opt_key)
       THEN SetApiKey(opt_key.val)
       ELSE UNCHANGED clientVars
    /\ ipc' = "start"
    /\ UNCHANGED <<calls, opt_key, models, model_index, inputs, line, escaped>>

\* interactive, lines 214-225: the key check, then client.ping() is called
IStart ==
    /\ ipc = "start"
    /\ IF api_key = <<>>
       THEN /\ said' = "API key required for chat"
            /\ ipc' = "done"
            /\ UNCHANGED <<api_key, pc, call, query, running, thread, orphans,
                           frames, outcome, response, ret, raised, queries, sent>>
       ELSE /\ Ping
            /\ ipc' = "ping_ret"
    /\ UNCHANGED <<calls, opt_key, models, model_index, inputs, line, escaped>>

\* interactive, lines 225-230: client.ping() is back; no try surrounds it
IPingRet ==
    /\ ipc = "ping_ret"
    /\ pc = "idle"
    /\ IF raised # "none"
       THEN /\ escaped' = raised
            /\ ipc' = "done"
            /\ UNCHANGED clientVars
       ELSE IF ~Truthy(ret)
       THEN /\ said' = "Cannot connect to server. Exiting."
            /\ ipc' = "done"
            /\ escaped' = escaped
            /\ UNCHANGED <<api_key, pc, call, query, running, thread, orphans,
                           frames, outcome, response, ret, raised, queries, sent>>
       ELSE /\ ListModels
            /\ ipc' = "list_ret"
            /\ escaped' = escaped
    /\ UNCHANGED <<calls, opt_key, models, model_index, inputs, line>>

\* interactive, lines 230-233: client.list_models() is back
IListRet ==
    /\ ipc = "list_ret"
    /\ pc = "idle"
    /\ IF raised # "none"
       THEN /\ escaped' = raised
            /\ ipc' = "done"
            /\ UNCHANGED <<models, said>>
       ELSE /\ models' = ret
            /\ escaped' = escaped
            /\ IF ~Truthy(ret)
               THEN /\ said' = "Cannot fetch models. Exiting."
                    /\ ipc' = "done"
               ELSE /\ said' = said
                    /\ ipc' = "select"
    /\ UNCHANGED <<api_key, pc, call, query, running, thread, orphans,
                   frames, outcome, response, ret, raised, queries, sent>>
    /\ UNCHANGED <<calls, opt_key, model_index, inputs, line>>

\* variant: the upper bound of the model index is not checked
IndexNotNegative(n) == 0 <= n

\* line 238
IndexInRange(n) == 0 <= n /\ n <= 9

\* lines 236-243: a line is read at the model prompt
ISelectLine ==
    /\ ipc = "select"
    /\ inputs < MaxInputs
    /\ \E l \in ModelInputs :
        /\ line' = Str(l)
        /\ IF ~ParseInt(l).ok
           THEN /\ said' = "Please enter a valid number"
                /\ UNCHANGED <<model_index, ipc>>
           ELSE /\ model_index' = Num(ParseInt(l).val)
                /\ IF IndexInRange(ParseInt(l).val)
                   THEN /\ said' = "Starting chat"
                        /\ ipc' = "prompt"
                   ELSE /\ said' = "Please enter a number between 0 and 9"
                        /\ ipc' = ipc
    /\ inputs' = inputs + 1
    /\ UNCHANGED <<api_key, pc, call, query, running, thread, orphans,
                   frames, outcome, response, ret, raised, queries, sent>>
    /\ UNCHANGED <<calls, opt_key, models, escaped>>

\* line 237: input() raises EOFError; no except clause of the loop matches
ISelectEof ==
    /\ ipc = "select"
    /\ line' = Eof
    /\ escaped' = "EOFError"
    /\ ipc' = "done"
    /\ UNCHANGED clientVars
    /\ UNCHANGED <<calls, opt_key, models, model_index, inputs>>

\* lines 244-246
ISelectInterrupt ==
    /\ ipc = "select"
    /\ line' = Interrupted
    /\ said' = "Goodbye!"
    /\ ipc' = "done"
    /\ UNCHANGED <<api_key, pc, call, query, running, thread, orphans,
                   frames, outcome, response, ret, raised, queries, sent>>
    /\ UNCHANGED <<calls, opt_key, models, model_index, inputs, escaped>>

\* lines 252-261: a line is read at the chat prompt
IPromptLine ==
    /\ ipc = "prompt"
    /\ pc = "idle"
    /\ inputs < MaxInputs
    /\ \E l \in ChatInputs :
        /\ line' = Str(l)
        /\ IF Lower(l) \in QuitWords
           THEN /\ said' = "Goodbye!"
                /\ ipc' = "done"
                /\ UNCHANGED <<api_key, pc, call, query, running, thread, orphans,
                               frames, outcome, response, ret, raised, queries, sent>>
           ELSE IF Strip(l, Whitespace) # <<>>
           THEN /\ Chat(model_index.val, l)
                /\ ipc' = "chat_ret"
           ELSE /\ said' = "Please enter a message"
                /\ ipc' = ipc
                /\ UNCHANGED <<api_key, pc, call, query, running, thread, orphans,
                               frames, outcome, response, ret, raised, queries, sent>>
    /\ inputs' = inputs + 1
    /\ UNCHANGED <<calls, opt_key, models, model_index, escaped>>

\* lines 266-268
IPromptEof ==
    /\ ipc = "prompt"
    /\ line' = Eof
    /\ said' = "Goodbye!"
    /\ ipc' = "done"
    /\ UNCHANGED <<api_key, pc, call, query, running, thread, orphans,
                   frames, outcome, response, ret, raised, queries, sent>>
    /\ UNCHANGED <<calls, opt_key, models, model_index, inputs, escaped>>

\* lines 263-265, the interrupt arriving during input()
IPromptInterrupt ==
    /\ ipc = "prompt"
    /\ line' = Interrupted
    /\ said' = "Goodbye!"
    /\ ipc' = "done"
    /\ UNCHANGED <<api_key, pc, call, query, running, thread, orphans,
                   frames, outcome, response, ret, raised, queries, sent>>
    /\ UNCHANGED <<calls, opt_key, models, model_index, inputs, escaped>>

\* variant: a chat turn without a reply ends the loop
AfterChatAbort(r, exc) ==
    IF exc = "KeyboardInterrupt" \/ ~Truthy(r) THEN "done" ELSE "prompt"

\* where the chat loop goes when client.chat() is back: its return value is
\* discarded, only an interrupt leaves the loop (lines 259, 263-265)
AfterChat(r, exc) == IF exc = "KeyboardInterrupt" THEN "done" ELSE "prompt"

IChatRet ==
    /\ ipc = "chat_ret"
    /\ pc = "idle"
    /\ ipc' = AfterChat(ret, raised)
    /\ said' = IF raised = "KeyboardInterrupt" THEN "Goodbye!" ELSE said
    /\ UNCHANGED <<api_key, pc, call, query, running, thread, orphans,
                   frames, outcome, response, ret, raised, queries, sent>>
    /\ UNCHANGED <<calls, opt_key, models, model_index, inputs, line, escaped>>

InitInteractive ==
    /\ ClientInit
    /\ ipc = "cli"
    /\ calls = 0
    /\ opt_key \in OptKeys
    /\ models = None
    /\ model_index = None
    /\ inputs = 0
    /\ line = None
    /\ escaped = "none"

NextInteractive ==
    \/ Cli
    \/ IStart
    \/ IPingRet
    \/ IListRet
    \/ ISelectLine
    \/ ISelectEof
    \/ ISelectInterrupt
    \/ IPromptLine
    \/ IPromptEof
    \/ IPromptInterrupt
    \/ IChatRet
    \/ ClientStep

SpecInteractive == InitInteractive /\ [][NextInteractive]_vars

(***************************************************************************)
(* Properties                                                              *)
(***************************************************************************)
SetApiKeyStep == calls' = calls + 1 /\ call'.name = "set_api_key"
IsChatQuery(q) == q # S_PING /\ q # S_LIST
QueryIssued == queries' # queries

\* C1: set_api_key with a key whose length is not 10 returns False, keeps the
\* stored api_key exactly as it was and issues no transport query.
C1_RejectedKeyKeepsState ==
    [][(SetApiKeyStep /\ Len(call'.key) # 10)
        => /\ ret'.kind = "bool" /\ ~ret'.val
           /\ api_key' = api_key
           /\ queries' = queries
           /\ pc' = "idle"]_vars

\* a rejected key after an accepted one: the accepted key is still stored
C1_Witness ==
    /\ call.name = "set_api_key"
    /\ call.key = K_LONG
    /\ api_key = K_GOOD
    /\ ret.kind = "bool" /\ ~ret.val

\* C2: a chat call with no api_key, or a model index outside [0,9], or a
\* prompt that is empty after trimming, has returned None without a single
\* transport query.
C2_BadChatIssuesNoQuery ==
    (/\ call.name = "chat"
     /\ \/ api_key = <<>>
        \/ call.mi < 0
        \/ call.mi > 9
        \/ Strip(call.prompt, Whitespace) = <<>>)
    => (sent = 0 /\ pc = "idle" /\ ret.kind = "none" /\ raised = "none")

C2_Witness ==
    /\ call.name = "chat"
    /\ api_key = K_GOOD
    /\ call.mi = 10
    /\ call.prompt = P_HELLO
    /\ pc = "idle"
    /\ ret.kind = "none"
    /\ queries = <<>>

\* C3: while the TXT query is outstanding the loader of this query_dns call
\* is running, and once query_dns has returned (whatever the answer or the
\* handled exception) its running flag is cleared and its thread has ended.
QueryReturned == pc = "qd_ret" \/ (pc = "idle" /\ sent > 0 /\ raised = "none")

C3_LoaderBracketsQuery ==
    /\ pc = "qd_wait" => (running /\ thread \in {"test", "print"})
    /\ QueryReturned => (~running /\ thread = "dead")

C3_Witness ==
    /\ pc = "qd_ret"
    /\ outcome.kind = "Exception"
    /\ thread = "dead"
    /\ frames > 0

\* C4: when the resolver fails with NXDOMAIN, NoAnswer, Timeout or another
\* DNS exception, ping, list_models and chat return False / None and no
\* exception leaves the method.
C4_DnsFailureIsAValue ==
    (pc = "idle" /\ sent > 0 /\ outcome.kind \in FailureKinds)
    => /\ raised = "none"
       /\ call.name = "ping" => (ret.kind = "bool" /\ ~ret.val)
       /\ call.name \in {"list_models", "chat"} => ret.kind = "none"

C4_Witness ==
    /\ pc = "idle"
    /\ sent = 1
    /\ call.name = "list_models"
    /\ outcome.kind = "DNSException"
    /\ ret.kind = "none"

\* C5: in the chat loop a turn that is not interrupted, whatever its outcome,
\* leaves the session in the chat loop with the same api_key and model index.
C5_FailedTurnKeepsChatting ==
    [][(ipc = "chat_ret" /\ raised = "none" /\ raised' = "none")
        => /\ ipc' \in {"chat_ret", "prompt"}
           /\ api_key' = api_key
           /\ model_index' = model_index
           /\ escaped' = "none"]_vars

\* back at the chat prompt after a turn that timed out
C5_Witness ==
    /\ ipc = "prompt"
    /\ call.name = "chat"
    /\ outcome.kind = "Timeout"
    /\ said = "DNS query timed out"
    /\ api_key = K_GOOD
    /\ model_index = Num(3)

\* C6: one invocation of ping, list_models or chat issues at most one
\* transport query; the transport never sees more queries than there were
\* invocations.
C6_NoAutomaticRetry ==
    /\ sent <= 1
    /\ Len(queries) <= calls

\* the same request sent twice, by two invocations, the second one timed out
C6_Witness ==
    /\ Len(queries) = 2
    /\ queries[1] = queries[2]
    /\ outcome.kind = "Timeout"
    /\ pc = "idle"

\* C7: a CHAT query is in the transport log only when a 10-character api_key
\* is stored and a model index in [0,9] is selected; a line at the model
\* prompt that is no number or out of range keeps the session at the model
\* prompt.
C7_NoChatBeforeKeyAndModel ==
    /\ []((\E i \in 1..Len(queries) : IsChatQuery(queries[i]))
          => /\ Len(api_key) = 10
             /\ model_index.kind = "int"
             /\ model_index.val \in 0..9
             /\ ipc \in {"chat_ret", "prompt", "done"})
    /\ [][(ipc = "select" /\ inputs' = inputs + 1 /\ line'.val \in BadModelInputs)
           => ipc' = "select"]_vars

C7_Witness ==
    /\ Len(queries) = 3
    /\ IsChatQuery(queries[3])
    /\ model_index = Num(7)
    /\ pc = "qd_wait"

\* C8: the transport log of a session is PING, then LIST, then CHAT queries;
\* LIST is issued only when the PING was answered with exactly PONG, a CHAT
\* only when the LIST returned a model list, and a finished session issues
\* no query.
C8_PingListChatOrder ==
    /\ [](\A i \in 1..Len(queries) :
            /\ i = 1 => queries[i] = S_PING
            /\ i = 2 => queries[i] = S_LIST
            /\ i >= 3 => IsChatQuery(queries[i]))
    /\ [][(QueryIssued /\ Len(queries') = 2)
           => (outcome.kind = "answer" /\ outcome.txt = S_PONG)]_vars
    /\ [][(QueryIssued /\ Len(queries') >= 3) => models.kind = "list"]_vars
    /\ [][(ipc = "ping_ret" /\ ipc' # ipc /\ ~(outcome.kind = "answer" /\ outcome.txt = S_PONG))
           => ipc' = "done"]_vars
    /\ [][(ipc = "list_ret" /\ ipc' # ipc /\ ret.kind # "list") => ipc' = "done"]_vars
    /\ [][ipc = "done" => queries' = queries]_vars

C8_Witness ==
    /\ Len(queries) = 3
    /\ queries[1] = S_PING
    /\ queries[2] = S_LIST
    /\ models = List(<< <<"a">>, <<"b">> >>)
    /\ ipc = "chat_ret"

\* C9: end of input at either prompt of the interactive command ends the
\* session with the farewell message and no exception leaves the command.
C9_EofEndsWithFarewell ==
    line.kind = "eof" => (ipc = "done" /\ said = "Goodbye!" /\ escaped = "none")

\* C10: an interrupt, at a prompt or while a query is outstanding, ends the
\* session with the farewell message and no exception leaves the command.
C10_InterruptEndsWithFarewell ==
    (ipc = "done" /\ (line.kind = "interrupt" \/ raised = "KeyboardInterrupt"))
    => (said = "Goodbye!" /\ escaped = "none")

\* C11: a chat call that passes the checks sends exactly one query, whose
\* name is the stored key, then the one digit of the model index, then the
\* prompt, with nothing in between; an answer that begins with ERROR: makes
\* chat return None, and no exception leaves it.
C11_ChatNameIsKeyDigitPrompt ==
    /\ (call.name = "chat" /\ sent > 0)
       => /\ sent = 1
          /\ Len(api_key) = 10
          /\ query = queries[Len(queries)]
          /\ Len(query) = 11 + Len(call.prompt)
          /\ SubSeq(query, 1, 10) = api_key
          /\ query[11] = Digits[call.mi + 1]
          /\ SubSeq(query, 12, Len(query)) = call.prompt
    /\ (call.name = "chat" /\ pc = "idle" /\ sent > 0
        /\ outcome.kind = "answer" /\ StartsWith(outcome.txt, S_ERROR))
       => (ret.kind = "none" /\ raised = "none")

\* key ABCDEFGHIJ, index 3, prompt hello: the name ABCDEFGHIJ3hello was sent
\* and answered with an ERROR: text
C11_Witness ==
    /\ call.name = "chat"
    /\ pc = "idle"
    /\ queries = << <<"A", "B", "C", "D", "E", "F", "G", "H", "I", "J", "3",
                     "h", "e", "l", "l", "o">> >>
    /\ outcome.txt = T_ERROR
    /\ ret.kind = "none"

\* C12: ping runs in every session state, with or without an api_key; no
\* step of a ping call changes the stored api_key, and every ping that the
\* transport answers with PONG returns True, whatever was called before.
C12_PingPreservesState ==
    /\ [][(call'.name = "ping") => api_key' = api_key]_vars
    /\ []((call.name = "ping" /\ pc = "idle" /\ raised = "none" /\ sent > 0
           /\ outcome.kind = "answer" /\ outcome.txt = S_PONG)
          => (ret.kind = "bool" /\ ret.val))

\* the second of two pings, both answered, no api_key set
C12_Witness ==
    /\ call.name = "ping"
    /\ pc = "idle"
    /\ queries = <<S_PING, S_PING>>
    /\ outcome.txt = S_PONG
    /\ ret.kind = "bool" /\ ret.val
    /\ api_key = <<>>

\* C13: for every list of 1 to 9 model names, when the LIST answer is
\* "Available models: " followed by the names joined with " | ",
\* list_models returns that list: same length, same names, same order.
C13_ModelListRoundTrip ==
    \A names \in ModelLists :
        (call.name = "list_models" /\ pc = "idle" /\ sent > 0
         /\ outcome.kind = "answer" /\ outcome.txt = ListAnswer(names))
        => /\ ret.kind = "list"
           /\ Len(ret.val) = Len(names)
           /\ \A i \in 1..Len(names) : ret.val[i] = names[i]

\* a list of nine names came back from list_models
C13_Witness ==
    /\ call.name = "list_models"
    /\ pc = "idle"
    /\ outcome.txt = ListAnswer(NineNames)
    /\ ret = List(NineNames)

\* C14: a LIST answer that is the prefix "Available models: " with no model
\* name after it makes list_models return None, and the interactive session
\* does not reach the model prompt.
C14_EmptyListIsAnError ==
    (call.name = "list_models" /\ pc = "idle" /\ sent > 0 /\ raised = "none"
     /\ outcome.kind = "answer" /\ outcome.txt = T_NOMODELS)
    => (ret.kind = "none" /\ ipc \in {"list_ret", "done"})

\* C15: for a TXT record whose payload is p, query_dns returns p: only the
\* one pair of quotes around the record is removed, also when p itself
\* begins or ends with a double quote.
C15_OneLayerOfQuotes ==
    (pc = "qd_ret" /\ outcome.kind = "answer") => IsStr(response, outcome.txt)

\* C16: when an interrupt ends the outstanding query, no loader is left
\* animating once control has left query_dns.
C16_InterruptStopsLoader ==
    raised = "KeyboardInterrupt" => orphans = 0

\* C17: once the chat loop is entered the model index is never assigned
\* again and the model prompt is never shown again, and every CHAT query of
\* the session has the digit of that index as its 11th character.
C17_ModelIndexFixedWhileChatting ==
    /\ [][(ipc = "prompt" \/ ipc = "chat_ret" \/ ipc = "done")
          => (model_index' = model_index /\ ipc' # "select")]_vars
    /\ [](\A i \in 3..Len(queries) :
            /\ model_index.kind = "int"
            /\ model_index.val \in 0..9
            /\ queries[i][11] = Digits[model_index.val + 1])

\* two chat turns of one session, both with index 7
C17_Witness ==
    /\ Len(queries) = 4
    /\ queries[3][11] = "7"
    /\ queries[4][11] = "7"
    /\ model_index = Num(7)
    /\ ipc = "prompt"

\* C18: started without --api-key, or with a value that is not 10
\* characters long, the interactive command reports the missing key and
\* ends; the transport sees no query at all.
C18_NoKeyNoQuery ==
    (ipc # "cli" /\ ~(opt_key.kind = "str" /\ Len(opt_key.val) = 10))
    => /\ queries = <<>>
       /\ pc = "idle"
       /\ ipc \in {"start", "done"}
       /\ ipc = "done" => (said = "API key required for chat" /\ escaped = "none")

\* the option carried a 9-character key
C18_Witness ==
    /\ opt_key = Str(K_SHORT)
    /\ ipc = "done"
    /\ api_key = <<>>
    /\ said = "API key required for chat"
    /\ queries = <<>>

\* C19: in every state the stored api_key is empty or exactly 10 characters
\* long, and the only step that changes it is a set_api_key call with a
\* 10-character argument, which stores that argument.
C19_ApiKeyEmptyOrTen ==
    /\ [](Len(api_key) = 0 \/ Len(api_key) = 10)
    /\ [][api_key' # api_key
          => (SetApiKeyStep /\ Len(call'.key) = 10 /\ api_key' = call'.key)]_vars

\* a second accepted key has replaced the first
C19_Witness ==
    /\ api_key = K_OTHER
    /\ call.name = "set_api_key"
    /\ call.key = K_OTHER
    /\ calls = 2
    /\ ret.kind = "bool" /\ ret.val

====
